---- MODULE Spec2Model ----
(***************************************************************************)
(* Attendance bot (src/bot.py): the records/users tables and the functions *)
(* that write them, the three ConversationHandlers (registration,          *)
(* check-in, check-out) with the per-user user_data dictionary they share, *)
(* and the handlers' dispatch order.                                       *)
(*                                                                         *)
(* Texts are sequences of one-character strings.  The module text is       *)
(* ASCII only: in the button and department labels "*" stands for the      *)
(* label's leading emoji and Latin letters for the Cyrillic ones.          *)
(* Dates are the strings "%Y-%m-%d", written <<year, month, day>>.         *)
(* None, an absent TEXT column (SQL NULL) and the empty text are <<>>.     *)
(***************************************************************************)
EXTENDS Integers, Sequences, FiniteSets, TLC

VARIABLES
    users,      \* table users: user_id -> real_name (a row per registered user)
    records,    \* table records: a set of rows
    next_id,    \* the SERIAL sequence of records.id
    conv_reg,   \* conv_reg's state per user (END: no conversation)
    conv_in,    \* conv_in's state per user
    conv_out,   \* conv_out's state per user
    user_data,  \* context.user_data per user: a dict keyed "action", "date", "dept"
    selected,   \* history: which of "date", "dept" the user chose since the last entry
    conns,      \* the database connections of concurrently running store calls
    last        \* the last operation: what was called with what, and what it returned

vars == <<users, records, next_id, conv_reg, conv_in, conv_out, user_data, selected, conns, last>>

-----------------------------------------------------------------------------
\* Bounds of the model.

\* the calendar days FirstDate, FirstDate + 1, ... (MaxDate of them)
MaxDate == 2
\* records.id values the sequence may hand out
MaxId == 2
\* the rows of the table from which a timesheet is compiled are at most
MaxRows == 2

\* update.effective_user.id of the users; 1 is in ADMIN_LIST
USER_IDS == {1, 2}

-----------------------------------------------------------------------------
\* Program constants.

None == <<>>

REGISTER_NAME == 0
SELECT_DATE == 1
DEPARTMENT == 2
TIME_INPUT == 3
\* ConversationHandler.END: the conversation is over, its key is dropped
END == -1

DEPT_CODES == {"rescue", "lockers", "admin", "tech"}

DEPT_MAP == [c \in DEPT_CODES |->
    CASE c = "rescue"  -> <<"*", " ", "S", "p", "a", "s">>
      [] c = "lockers" -> <<"*", " ", "L", "o", "k">>
      [] c = "admin"   -> <<"*", " ", "A", "d", "m", ".">>
      [] c = "tech"    -> <<"*", " ", "T", "e", "h">>]

\* the keys of DEPT_REVERSE_MAP: the labels
DEPT_REVERSE_KEYS == {DEPT_MAP[c] : c \in DEPT_CODES}

\* DEPT_REVERSE_MAP.get(text): the code whose label is text, else None
DEPT_REVERSE_MAP(text) ==
    IF \E c \in DEPT_CODES : DEPT_MAP[c] = text
    THEN CHOOSE c \in DEPT_CODES : DEPT_MAP[c] = text
    ELSE None

\* the name save_check_in stores for a user without a profile
UNKNOWN_NAME == <<"N", "e", "i", "z", "v">>

-----------------------------------------------------------------------------
\* Dates: datetime.strptime / timedelta(days=1) / strftime on "%Y-%m-%d".

IsLeap(y) == (y % 4 = 0 /\ y % 100 # 0) \/ y % 400 = 0

DaysInMonth(y, m) ==
    IF m = 2 THEN (IF IsLeap(y) THEN 29 ELSE 28)
    ELSE IF m \in {4, 6, 9, 11} THEN 30 ELSE 31

\* mutant of prev_date_str: the day is not stepped back
prev_date_str_same_day(d) == d

\* (dt - timedelta(days=1)).strftime("%Y-%m-%d")
prev_date_str(d) ==
    IF d[3] > 1 THEN <<d[1], d[2], d[3] - 1>>
    ELSE IF d[2] > 1 THEN <<d[1], d[2] - 1, DaysInMonth(d[1], d[2] - 1)>>
    ELSE <<d[1] - 1, 12, 31>>

NextDay(d) ==
    IF d[3] < DaysInMonth(d[1], d[2]) THEN <<d[1], d[2], d[3] + 1>>
    ELSE IF d[2] < 12 THEN <<d[1], d[2] + 1, 1>>
    ELSE <<d[1] + 1, 1, 1>>

FirstDate == <<2024, 2, 29>>

RECURSIVE DateNo(_)
DateNo(n) == IF n = 1 THEN FirstDate ELSE NextDay(DateNo(n - 1))

\* the dates a user can pick in the calendar
DATES == {DateNo(n) : n \in 1..MaxDate}

-----------------------------------------------------------------------------
\* Texts.

T0900 == <<"0", "9", ":", "0", "0">>
T1800 == <<"1", "8", ":", "0", "0">>
\* the valid times the store specifications submit
TIMES == {T0900, T1800}
\* the department codes the store specifications submit
DEPTS == {"rescue", "lockers"}
\* the (dept_code, time_str) pairs a check-in is submitted with
CHECK_INS == {<<"rescue", T0900>>, <<"lockers", T1800>>}

NAME_ANN == <<"A", "n", "n">>
\* the names the store specifications register
NAMES == {NAME_ANN}

-----------------------------------------------------------------------------
\* Python dicts: a function on the keys present.

EmptyDict == [k \in {} |-> None]

DictSet(d, k, v) == [x \in (DOMAIN d) \cup {k} |-> IF x = k THEN v ELSE d[x]]

HasKey(d, k) == k \in DOMAIN d

\* d.get(k)
DictGet(d, k) == IF k \in DOMAIN d THEN d[k] ELSE None

-----------------------------------------------------------------------------
\* The store.

\* get_user_name(user_id): the stored real_name, or None
get_user_name(user_id) == DictGet(users, user_id)

\* register_user_db: INSERT ... ON CONFLICT (user_id) DO UPDATE SET real_name
register_user_db(user_id, real_name) ==
    users' = DictSet(users, user_id, real_name)

\* clear_all_records: DELETE FROM records (the sequence is not reset)
clear_all_records ==
    /\ records' = {}
    /\ next_id' = next_id

\* SELECT id FROM records WHERE user_id = %s AND date = %s
RowsOf(recs, user_id, date_str) ==
    {r \in recs : r.user_id = user_id /\ r.date = date_str}

\* the row save_check_in inserts: check_out is left NULL
NewRow(id, user_id, real_name, date_str, dept_code, time_str) ==
    [id |-> id, user_id |-> user_id, full_name |-> real_name, date |-> date_str,
     department |-> dept_code, check_in |-> time_str, check_out |-> None]

\* mutant of CheckInUpdated: the UPDATE forgets the department column
CheckInUpdated_keeps_department(r, real_name, dept_code, time_str) ==
    [r EXCEPT !.check_in = time_str, !.full_name = real_name]

\* mutant of CheckInUpdated: the UPDATE reopens the shift
CheckInUpdated_clears_check_out(r, real_name, dept_code, time_str) ==
    [r EXCEPT !.check_in = time_str, !.department = dept_code, !.full_name = real_name,
              !.check_out = None]

\* UPDATE records SET check_in, department, full_name WHERE id = existing[0]
CheckInUpdated(r, real_name, dept_code, time_str) ==
    [r EXCEPT !.check_in = time_str, !.department = dept_code, !.full_name = real_name]

\* mutant of save_check_in: INSERT without looking for an existing row
save_check_in_always_inserts(user_id, date_str, dept_code, time_str, status) ==
    LET real_name == IF get_user_name(user_id) # None
                     THEN get_user_name(user_id) ELSE UNKNOWN_NAME
    IN  /\ next_id <= MaxId
        /\ records' = records \cup
                {NewRow(next_id, user_id, real_name, date_str, dept_code, time_str)}
        /\ next_id' = next_id + 1
        /\ status = "created"

\* save_check_in as one call: SELECT, then UPDATE of the row fetched or INSERT
save_check_in(user_id, date_str, dept_code, time_str, status) ==
    LET real_name == IF get_user_name(user_id) # None
                     THEN get_user_name(user_id) ELSE UNKNOWN_NAME
        found == RowsOf(records, user_id, date_str)
    IN  IF found # {}
        THEN \E existing \in found :
                /\ records' = (records \ {existing})
                        \cup {CheckInUpdated(existing, real_name, dept_code, time_str)}
                /\ next_id' = next_id
                /\ status = "updated"
        ELSE /\ next_id <= MaxId
             /\ records' = records \cup
                    {NewRow(next_id, user_id, real_name, date_str, dept_code, time_str)}
             /\ next_id' = next_id + 1
             /\ status = "created"

\* UPDATE records SET check_out = %s WHERE user_id = %s AND date = %s
SetCheckOut(recs, rows, time_str) ==
    (recs \ rows) \cup {[r EXCEPT !.check_out = time_str] : r \in rows}

\* mutant of OpenRowsOf: the fallback UPDATE without "AND check_out IS NULL"
OpenRowsOf_closed_too(recs, user_id, date_str) ==
    RowsOf(recs, user_id, date_str)

\* the rows the fallback UPDATE matches: the previous day's, check_out IS NULL
OpenRowsOf(recs, user_id, date_str) ==
    {r \in RowsOf(recs, user_id, date_str) : r.check_out = None}

\* mutant of save_check_out: a check-out without a row to close inserts one
save_check_out_creates_row(user_id, selected_date_str, time_str, result) ==
    LET same == RowsOf(records, user_id, selected_date_str)
    IN  IF same # {}
        THEN /\ records' = SetCheckOut(records, same, time_str)
             /\ next_id' = next_id
             /\ result = <<TRUE, selected_date_str>>
        ELSE /\ next_id <= MaxId
             /\ records' = records \cup
                    {[NewRow(next_id, user_id, UNKNOWN_NAME, selected_date_str, None, None)
                        EXCEPT !.check_out = time_str]}
             /\ next_id' = next_id + 1
             /\ result = <<TRUE, selected_date_str>>

\* mutant of save_check_out: an open row of the previous day is closed first
save_check_out_fallback_first(user_id, selected_date_str, time_str, result) ==
    LET same == RowsOf(records, user_id, selected_date_str)
        prev == OpenRowsOf(records, user_id, prev_date_str(selected_date_str))
    IN  /\ next_id' = next_id
        /\ IF prev # {}
           THEN /\ records' = SetCheckOut(records, prev, time_str)
                /\ result = <<TRUE, prev_date_str(selected_date_str)>>
           ELSE IF same # {}
           THEN /\ records' = SetCheckOut(records, same, time_str)
                /\ result = <<TRUE, selected_date_str>>
           ELSE /\ records' = records
                /\ result = <<FALSE, None>>

\* save_check_out as one call; result is <<success, date_closed>>
save_check_out(user_id, selected_date_str, time_str, result) ==
    LET same == RowsOf(records, user_id, selected_date_str)
        prev == OpenRowsOf(records, user_id, prev_date_str(selected_date_str))
    IN  /\ next_id' = next_id
        /\ IF same # {}
           THEN /\ records' = SetCheckOut(records, same, time_str)
                /\ result = <<TRUE, selected_date_str>>
           ELSE IF prev # {}
           THEN /\ records' = SetCheckOut(records, prev, time_str)
                /\ result = <<TRUE, prev_date_str(selected_date_str)>>
           ELSE /\ records' = records
                /\ result = <<FALSE, None>>

\* what save_check_out can return
CHECK_OUT_RESULTS ==
    {<<FALSE, None>>} \cup {<<TRUE, d>> : d \in DATES \cup {prev_date_str(FirstDate)}}

\* The statements of save_check_in at which the storage may fail.  The
\* function has no try: the exception leaves it, nothing is committed.
CHECK_IN_FAULTS == {"select", "commit"}

save_check_in_fails(at) ==
    /\ at \in CHECK_IN_FAULTS
    /\ UNCHANGED <<records, next_id>>

\* The statements of save_check_out at which the storage may fail.
CHECK_OUT_FAULTS == {"update_same_day", "update_previous_day", "commit_previous_day"}

\* save_check_out when the storage fails at a statement: the first UPDATE
\* (line 192) is outside the try, its exception leaves the function
\* ("raised"); the UPDATE of the previous day and its commit (lines 199-201)
\* are inside try ... except Exception: pass, and the function goes on to
\* return False, None ("not_found").  Nothing is committed in either case.
save_check_out_fails(user_id, selected_date_str, at, outcome) ==
    /\ UNCHANGED <<records, next_id>>
    /\ \/ at = "update_same_day" /\ outcome = "raised"
       \/ /\ at = "update_previous_day"
          /\ RowsOf(records, user_id, selected_date_str) = {}
          /\ outcome = "not_found"
       \/ /\ at = "commit_previous_day"
          /\ RowsOf(records, user_id, selected_date_str) = {}
          /\ OpenRowsOf(records, user_id, prev_date_str(selected_date_str)) # {}
          /\ outcome = "not_found"

\* last, after a call of a store function by the store specifications
StoreLast(op, user_id, date_str, status) ==
    [op |-> op, user_id |-> user_id, date |-> date_str, status |-> status,
     conv |-> "none", alert |-> FALSE, delivery |-> "none", fault |-> "none"]

\* the callers that can hold a database connection at the same time
CONNS == {1, 2}

\* a caller that is not inside a store call
IdleConn == [pc |-> "idle", date |-> None, dept |-> None, time |-> None, existing |-> None]

-----------------------------------------------------------------------------
Init ==
    /\ users = EmptyDict
    /\ records = {}
    /\ next_id = 1
    /\ conv_reg = [u \in USER_IDS |-> END]
    /\ conv_in = [u \in USER_IDS |-> END]
    /\ conv_out = [u \in USER_IDS |-> END]
    /\ user_data = [u \in USER_IDS |-> EmptyDict]
    /\ selected = [u \in USER_IDS |-> {}]
    /\ conns = [c \in CONNS |-> IdleConn]
    /\ last = StoreLast("init", 1, None, "none")

\* what the store calls leave alone
ChatUnchanged == UNCHANGED <<conv_reg, conv_in, conv_out, user_data, selected, conns>>

-----------------------------------------------------------------------------
\* SpecStore: the store's functions called one at a time with any arguments.

StoreRegister ==
    \E user_id \in USER_IDS, real_name \in NAMES :
        /\ register_user_db(user_id, real_name)
        /\ last' = StoreLast("register_user_db", user_id, None, "saved")
        /\ UNCHANGED <<records, next_id>>
        /\ ChatUnchanged

StoreCheckIn ==
    \E user_id \in USER_IDS, date_str \in DATES, ci \in CHECK_INS,
       status \in {"created", "updated"} :
        \* its callers start_checkin / receive_time run behind the profile guard
        /\ get_user_name(user_id) # None
        /\ save_check_in(user_id, date_str, ci[1], ci[2], status)
        /\ last' = StoreLast("save_check_in", user_id, date_str, status)
        /\ UNCHANGED users
        /\ ChatUnchanged

StoreCheckOut ==
    \E user_id \in USER_IDS, date_str \in DATES, time_str \in TIMES,
       result \in CHECK_OUT_RESULTS :
        /\ save_check_out(user_id, date_str, time_str, result)
        /\ last' = StoreLast("save_check_out", user_id, date_str, result)
        /\ UNCHANGED users
        /\ ChatUnchanged

StoreClear ==
    /\ clear_all_records
    /\ last' = StoreLast("clear_all_records", 1, None, "cleared")
    /\ UNCHANGED users
    /\ ChatUnchanged

NextStore == StoreRegister \/ StoreCheckIn \/ StoreCheckOut \/ StoreClear

SpecStore == Init /\ [][NextStore]_vars

-----------------------------------------------------------------------------
\* SpecConc: two callers (two bot processes on one database) run save_check_in
\* and save_check_out for the same user statement by statement.  Each call
\* opens its own connection (get_db_connection); psycopg2 runs it as one READ
\* COMMITTED transaction, so a statement sees what was committed before it.  A
\* call's last write and its commit are one step: until the commit nobody else
\* sees the write, and an UPDATE of a row another call has written waits for
\* that call's commit.

\* the user both callers act for
CONC_USER == 1

ConcUnchanged == UNCHANGED <<conv_reg, conv_in, conv_out, user_data, selected>>

\* /start and the name, before the concurrent calls
ConcRegister ==
    /\ \A c \in CONNS : conns[c].pc = "idle"
    /\ get_user_name(CONC_USER) = None
    /\ register_user_db(CONC_USER, NAME_ANN)
    /\ last' = StoreLast("register_user_db", CONC_USER, None, "saved")
    /\ UNCHANGED <<records, next_id, conns>>
    /\ ConcUnchanged

\* save_check_in, lines 173-177: the SELECT and fetchone()
ConcCheckInSelect(c) ==
    \E date_str \in DATES, ci \in CHECK_INS :
        /\ conns[c].pc = "idle"
        /\ get_user_name(CONC_USER) # None
        /\ \E existing \in {<<r.id>> : r \in RowsOf(records, CONC_USER, date_str)} \cup {None} :
            /\ (existing = None) <=> (RowsOf(records, CONC_USER, date_str) = {})
            /\ conns' = [conns EXCEPT ![c] = [pc |-> "check_in", date |-> date_str,
                            dept |-> ci[1], time |-> ci[2], existing |-> existing]]
        /\ last' = StoreLast("select", CONC_USER, date_str, "pending")
        /\ UNCHANGED <<users, records, next_id>>
        /\ ConcUnchanged

\* save_check_in, lines 178-187: UPDATE ... WHERE id = existing[0], or INSERT;
\* then the commit
ConcCheckInWrite(c) ==
    LET call == conns[c]
        real_name == get_user_name(CONC_USER)
        hit == {r \in records : <<r.id>> = call.existing}
    IN  /\ call.pc = "check_in"
        /\ IF call.existing # None
           THEN /\ records' = (records \ hit) \cup
                        {CheckInUpdated(r, real_name, call.dept, call.time) : r \in hit}
                /\ next_id' = next_id
                /\ last' = StoreLast("save_check_in", CONC_USER, call.date, "updated")
           ELSE /\ next_id <= MaxId
                /\ records' = records \cup
                        {NewRow(next_id, CONC_USER, real_name, call.date, call.dept, call.time)}
                /\ next_id' = next_id + 1
                /\ last' = StoreLast("save_check_in", CONC_USER, call.date, "created")
        /\ conns' = [conns EXCEPT ![c] = IdleConn]
        /\ UNCHANGED users
        /\ ConcUnchanged

\* save_check_out, lines 190-195: the same-day UPDATE; committed when it hit a row
ConcCheckOutSameDay(c) ==
    \E date_str \in DATES, time_str \in TIMES :
        LET same == RowsOf(records, CONC_USER, date_str)
        IN  /\ conns[c].pc = "idle"
            /\ get_user_name(CONC_USER) # None
            /\ IF same # {}
               THEN /\ records' = SetCheckOut(records, same, time_str)
                    /\ conns' = conns
                    /\ last' = StoreLast("save_check_out", CONC_USER, date_str, <<TRUE, date_str>>)
               ELSE /\ records' = records
                    /\ conns' = [conns EXCEPT ![c] = [pc |-> "check_out",
                            date |-> date_str, dept |-> None, time |-> time_str,
                            existing |-> None]]
                    /\ last' = StoreLast("update", CONC_USER, date_str, "pending")
            /\ UNCHANGED <<users, next_id>>
            /\ ConcUnchanged

\* save_check_out, lines 196-205: the previous day's UPDATE ... check_out IS NULL
ConcCheckOutFallback(c) ==
    LET call == conns[c]
        prev == OpenRowsOf(records, CONC_USER, prev_date_str(call.date))
    IN  /\ call.pc = "check_out"
        /\ IF prev # {}
           THEN /\ records' = SetCheckOut(records, prev, call.time)
                /\ last' = StoreLast("save_check_out", CONC_USER, call.date, <<TRUE, prev_date_str(call.date)>>)
           ELSE /\ records' = records
                /\ last' = StoreLast("save_check_out", CONC_USER, call.date, <<FALSE, None>>)
        /\ conns' = [conns EXCEPT ![c] = IdleConn]
        /\ UNCHANGED <<users, next_id>>
        /\ ConcUnchanged

NextConc ==
    \/ ConcRegister
    \/ \E c \in CONNS : ConcCheckInSelect(c)
    \/ \E c \in CONNS : ConcCheckInWrite(c)
    \/ \E c \in CONNS : ConcCheckOutSameDay(c)
    \/ \E c \in CONNS : ConcCheckOutFallback(c)

SpecConc == Init /\ [][NextConc]_vars

-----------------------------------------------------------------------------
\* The chat: what a user can send, and which handler gets it.

\* the users who talk to the bot in Spec
CHAT_USERS == {1}

\* ADMIN_LIST, as far as the modelled user ids go
ADMIN_LIST == {1}

BTN_CHECKIN == <<"*", " ", "P", "r", "i", "h", "o", "d">>
BTN_CHECKOUT == <<"*", " ", "U", "h", "o", "d">>
CMD_START == <<"/", "s", "t", "a", "r", "t">>
CMD_CHECKIN == <<"/", "c", "h", "e", "c", "k", "i", "n">>
CMD_CHECKOUT == <<"/", "c", "h", "e", "c", "k", "o", "u", "t">>
CMD_CANCEL == <<"/", "c", "a", "n", "c", "e", "l">>
CMD_CLEAR == <<"/", "c", "l", "e", "a", "r">>

\* a time with a blank before it, a time without its leading zero, a name of
\* two letters between blanks
T0900_PADDED == <<" ", "0", "9", ":", "0", "0">>
T_9_00 == <<"9", ":", "0", "0">>
NAME_SHORT == <<" ", "a", "b", " ">>

\* the message texts the users send
TEXTS ==
    {BTN_CHECKIN, BTN_CHECKOUT, CMD_START, CMD_CANCEL, CMD_CLEAR,
     DEPT_MAP["rescue"], T0900, T0900_PADDED, T_9_00,
     NAME_ANN, NAME_SHORT}

\* the texts sent as a name while registering
REG_TEXTS == {NAME_ANN, NAME_SHORT}

WHITESPACE == {" ", "\t", "\n"}

RECURSIVE lstrip(_)
lstrip(text) ==
    IF text # <<>> /\ Head(text) \in WHITESPACE THEN lstrip(Tail(text)) ELSE text

RECURSIVE rstrip(_)
rstrip(text) ==
    IF text # <<>> /\ text[Len(text)] \in WHITESPACE
    THEN rstrip(SubSeq(text, 1, Len(text) - 1)) ELSE text

\* str.strip()
strip(text) == rstrip(lstrip(text))

DIGITS == {"0", "1", "2", "3", "4", "5", "6", "7", "8", "9"}

\* ([01]\d|2[0-3]):([0-5]\d) on exactly five characters
IsHHMM(text) ==
    /\ Len(text) = 5
    /\ \/ text[1] \in {"0", "1"} /\ text[2] \in DIGITS
       \/ text[1] = "2" /\ text[2] \in {"0", "1", "2", "3"}
    /\ text[3] = ":"
    /\ text[4] \in {"0", "1", "2", "3", "4", "5"}
    /\ text[5] \in DIGITS

\* mutant of validate_time_format: the hour may have one digit
validate_time_format_one_digit_hour(time_text) ==
    \/ IsHHMM(time_text)
    \/ Len(time_text) = 4 /\ IsHHMM(<<"0">> \o time_text)

\* re.match(r"^([01]\d|2[0-3]):([0-5]\d)$", time_text): "$" also matches
\* before a newline that ends the text
validate_time_format(time_text) ==
    \/ IsHHMM(time_text)
    \/ /\ Len(time_text) = 6
       /\ time_text[6] = "\n"
       /\ IsHHMM(SubSeq(time_text, 1, 5))

\* filters.COMMAND: the text starts with a bot command
IsCommand(text) == text # <<>> /\ Head(text) = "/"

\* filters.Regex("^<label>$"): re.search; "$" as above
MatchesLabel(text, label) == text = label \/ text = label \o <<"\n">>

\* The handler of conv_reg that takes a message, "none" if it takes none:
\* entry points first (allow_reentry), then the state's handlers; no fallbacks.
ConvRegHandler(state, text) ==
    IF text = CMD_START THEN "start_command"
    ELSE IF state = REGISTER_NAME /\ ~IsCommand(text) THEN "receive_registration_name"
    ELSE "none"

\* The handler of conv_in that takes a message: entry points first
\* (allow_reentry), then the state's handlers (filters.TEXT takes every text,
\* commands too), then the fallback /cancel.
ConvInHandler(state, text) ==
    IF text = CMD_CHECKIN \/ MatchesLabel(text, BTN_CHECKIN) THEN "start_checkin"
    ELSE IF state = DEPARTMENT THEN "receive_department"
    ELSE IF state = TIME_INPUT THEN "receive_time"
    ELSE IF state # END /\ text = CMD_CANCEL THEN "cancel"
    ELSE "none"

\* The handler of conv_out that takes a message; conv_out has no handler for
\* DEPARTMENT.
ConvOutHandler(state, text) ==
    IF text = CMD_CHECKOUT \/ MatchesLabel(text, BTN_CHECKOUT) THEN "start_checkout"
    ELSE IF state = TIME_INPUT THEN "receive_time"
    ELSE IF state # END /\ text = CMD_CANCEL THEN "cancel"
    ELSE "none"

\* application.add_handler order: the first handler of the group whose
\* check_update accepts the message handles it, and no other does.
\* <<conversation, handler>>
Route(u, text) ==
    IF ConvRegHandler(conv_reg[u], text) # "none"
    THEN <<"conv_reg", ConvRegHandler(conv_reg[u], text)>>
    ELSE IF ConvInHandler(conv_in[u], text) # "none"
    THEN <<"conv_in", ConvInHandler(conv_in[u], text)>>
    ELSE IF ConvOutHandler(conv_out[u], text) # "none"
    THEN <<"conv_out", ConvOutHandler(conv_out[u], text)>>
    ELSE IF text = CMD_CLEAR THEN <<"none", "clear_db_command">>
    ELSE <<"none", "none">>

\* A callback query "cbcal_..." goes to the first conversation that is in
\* SELECT_DATE (CallbackQueryHandler(calendar_handler, pattern="^cbcal_")).
CallbackRoute(u) ==
    IF conv_in[u] = SELECT_DATE THEN "conv_in"
    ELSE IF conv_out[u] = SELECT_DATE THEN "conv_out"
    ELSE "none"

\* the state of a conversation
ConvState(conv, u) ==
    IF conv = "conv_in" THEN conv_in[u]
    ELSE IF conv = "conv_out" THEN conv_out[u] ELSE conv_reg[u]

\* the handler's return value becomes the state of the conversation that
\* handled the update, whether or not its states table has that state
SetConv(conv, u, state) ==
    /\ conv_in' = IF conv = "conv_in" THEN [conv_in EXCEPT ![u] = state] ELSE conv_in
    /\ conv_out' = IF conv = "conv_out" THEN [conv_out EXCEPT ![u] = state] ELSE conv_out
    /\ conv_reg' = IF conv = "conv_reg" THEN [conv_reg EXCEPT ![u] = state] ELSE conv_reg

\* last, after a handler ran: which one, in which conversation, for whom,
\* the date it committed (None if none), its outcome, whether it produced a
\* late-arrival alert; delivery is what became of the alert, fault the
\* statement of the store at which the storage failed ("none": neither)
BotLast(op, conv, u, date_str, status, alert) ==
    [op |-> op, user_id |-> u, date |-> date_str, status |-> status, conv |-> conv,
     alert |-> alert, delivery |-> "none", fault |-> "none"]

-----------------------------------------------------------------------------
\* The handlers.  u is update.effective_user.id; conv is the conversation
\* that handles the update.

ConvUnchanged == UNCHANGED <<conv_reg, conv_in, conv_out>>

StoreUnchanged == UNCHANGED <<users, records, next_id, conns>>

\* start_command: a registered user gets the menu, another is asked the name
start_command(u) ==
    /\ SetConv("conv_reg", u, IF get_user_name(u) # None THEN END ELSE REGISTER_NAME)
    /\ last' = BotLast("start_command", "conv_reg", u, None,
                       IF get_user_name(u) # None THEN "menu" ELSE "ask_name", FALSE)
    /\ StoreUnchanged
    /\ UNCHANGED <<user_data, selected>>

receive_registration_name(u, text) ==
    LET name == strip(text)
    IN  IF Len(name) < 3
        THEN /\ last' = BotLast("receive_registration_name", "conv_reg", u, None,
                                "rejected", FALSE)
             /\ ConvUnchanged
             /\ StoreUnchanged
             /\ UNCHANGED <<user_data, selected>>
        ELSE /\ register_user_db(u, name)
             /\ SetConv("conv_reg", u, END)
             /\ last' = BotLast("receive_registration_name", "conv_reg", u, None,
                                "saved", FALSE)
             /\ UNCHANGED <<records, next_id, conns, user_data, selected>>

\* clear_db_command: /clear, for the admins only
clear_db_command(u) ==
    /\ IF u \in ADMIN_LIST
       THEN /\ clear_all_records
            /\ last' = BotLast("clear_db_command", "none", u, None, "cleared", FALSE)
       ELSE /\ UNCHANGED <<records, next_id>>
            /\ last' = BotLast("clear_db_command", "none", u, None, "refused", FALSE)
    /\ ConvUnchanged
    /\ UNCHANGED <<users, conns, user_data, selected>>

\* mutant of StartPunch: no look at the profile
StartPunch_without_guard(u, conv, op, action) ==
    /\ user_data' = [user_data EXCEPT ![u] = DictSet(@, "action", action)]
    /\ selected' = [selected EXCEPT ![u] = {}]
    /\ SetConv(conv, u, SELECT_DATE)
    /\ last' = BotLast(op, conv, u, None, "entered", FALSE)
    /\ UNCHANGED <<users, records, next_id, conns>>

\* start_checkin / start_checkout: action is "in" / "out"; without a profile
\* the conversation ends at once, otherwise user_data['action'] is set (and
\* nothing else of user_data is touched) and the state is SELECT_DATE
StartPunch(u, conv, op, action) ==
    /\ IF get_user_name(u) = None
       THEN /\ SetConv(conv, u, END)
            /\ last' = BotLast(op, conv, u, None, "no_profile", FALSE)
            /\ UNCHANGED <<user_data, selected>>
       ELSE /\ user_data' = [user_data EXCEPT ![u] = DictSet(@, "action", action)]
            /\ selected' = [selected EXCEPT ![u] = {}]
            /\ SetConv(conv, u, SELECT_DATE)
            /\ last' = BotLast(op, conv, u, None, "entered", FALSE)
    /\ StoreUnchanged

start_checkin(u) == StartPunch(u, "conv_in", "start_checkin", "in")

start_checkout(u) == StartPunch(u, "conv_out", "start_checkout", "out")

\* what DetailedTelegramCalendar.process makes of a button of the calendar:
\* a step of the navigation (no result, a new keyboard), a day (the result),
\* or a button without effect (neither)
CALLBACKS ==
    {[kind |-> "step", date |-> None], [kind |-> "nothing", date |-> None]}
        \cup {[kind |-> "day", date |-> d] : d \in DATES}

calendar_handler(u, conv, data) ==
    /\ StoreUnchanged
    /\ IF data.kind = "step"
       THEN /\ SetConv(conv, u, SELECT_DATE)
            /\ last' = BotLast("calendar_handler", conv, u, None, "step", FALSE)
            /\ UNCHANGED <<user_data, selected>>
       ELSE IF data.kind = "nothing"
       THEN \* falls off the end: returns None, the state stays
            /\ ConvUnchanged
            /\ last' = BotLast("calendar_handler", conv, u, None, "nothing", FALSE)
            /\ UNCHANGED <<user_data, selected>>
       ELSE /\ user_data' = [user_data EXCEPT ![u] = DictSet(@, "date", data.date)]
            /\ selected' = [selected EXCEPT ![u] = @ \cup {"date"}]
            /\ IF ~HasKey(user_data[u], "action")
               THEN \* line 324 raises KeyError: the state stays
                    /\ ConvUnchanged
                    /\ last' = BotLast("calendar_handler", conv, u, None, "KeyError", FALSE)
               ELSE /\ SetConv(conv, u, IF user_data[u]["action"] = "in"
                                        THEN DEPARTMENT ELSE TIME_INPUT)
                    /\ last' = BotLast("calendar_handler", conv, u, None, "date", FALSE)

receive_department(u, conv, text) ==
    LET dept_code == DEPT_REVERSE_MAP(text)
    IN  /\ StoreUnchanged
        /\ IF text \notin DEPT_REVERSE_KEYS
           THEN /\ ConvUnchanged
                /\ last' = BotLast("receive_department", conv, u, None, "rejected", FALSE)
                /\ UNCHANGED <<user_data, selected>>
           ELSE /\ user_data' = [user_data EXCEPT ![u] = DictSet(@, "dept", dept_code)]
                /\ selected' = [selected EXCEPT ![u] = @ \cup {"dept"}]
                /\ SetConv(conv, u, TIME_INPUT)
                /\ last' = BotLast("receive_department", conv, u, None, "dept", FALSE)

\* LATE_LIMIT = time(9, 16) and time(12, 0), in minutes of the day
LATE_LIMIT == 556
NOON == 720

\* the local times of day at which a time is received
NOW_MINUTES == {LATE_LIMIT, LATE_LIMIT + 1, NOON}

\* mutant of IsLate: late from the cutoff on
IsLate_from_cutoff(date_str, today, now) ==
    date_str = today /\ LATE_LIMIT <= now /\ now < NOON

\* lines 353-354: the selected date is today and LATE_LIMIT < now < 12:00
IsLate(date_str, today, now) ==
    date_str = today /\ LATE_LIMIT < now /\ now < NOON

\* context.user_data.clear(); return ConversationHandler.END
Finish(u, conv) ==
    /\ user_data' = [user_data EXCEPT ![u] = EmptyDict]
    /\ selected' = [selected EXCEPT ![u] = {}]
    /\ SetConv(conv, u, END)

\* a handler that raised: nothing of the chat or the store has changed
Raised(u, conv, op, alert) ==
    /\ last' = BotLast(op, conv, u, None, "KeyError", alert)
    /\ ConvUnchanged
    /\ UNCHANGED <<users, records, next_id, conns, user_data, selected>>

\* what becomes of an alert: lines 359-366 send it to the group chat or to
\* each admin; a send can fail
DELIVERIES == {"sent", "failed"}

\* mutant of send_alert_raises: a failed delivery leaves the handler
send_alert_raises_on_failure(delivery) == delivery = "failed"

\* whether the sending of the alert raises out of receive_time: the sends to
\* the admins are in try ... except: pass (lines 364-366), the whole
\* detection in try ... except Exception (lines 351, 369)
send_alert_raises(delivery) == FALSE

\* receive_time left by an exception of the store: the state of the
\* conversation stays, lines 383-384 are not reached
StorageError(u, conv, at, alert, delivery) ==
    /\ last' = [BotLast("receive_time", conv, u, None, "StorageError", alert)
                    EXCEPT !.fault = at, !.delivery = delivery]
    /\ ConvUnchanged
    /\ UNCHANGED <<users, conns, user_data, selected>>

\* receive_time when datetime.now(TIMEZONE) is the date today and the time of
\* day now (in minutes)
receive_time_at(u, conv, text, today, now) ==
    LET time_str == strip(text)
        data == user_data[u]
    IN  IF ~validate_time_format(time_str)
        THEN /\ last' = BotLast("receive_time", conv, u, None, "rejected", FALSE)
             /\ ConvUnchanged
             /\ UNCHANGED <<users, records, next_id, conns, user_data, selected>>
        ELSE IF ~HasKey(data, "action")
        THEN Raised(u, conv, "receive_time", FALSE)
        ELSE IF data["action"] = "in"
        THEN    LET alert == HasKey(data, "date") /\ IsLate(data["date"], today, now)
                IN  \E delivery \in IF alert THEN DELIVERIES ELSE {"none"} :
                    IF send_alert_raises(delivery)
                    THEN /\ last' = [BotLast("receive_time", conv, u, None,
                                             "SendError", alert)
                                        EXCEPT !.delivery = delivery]
                         /\ ConvUnchanged
                         /\ UNCHANGED <<users, records, next_id, conns, user_data,
                                        selected>>
                    ELSE IF ~HasKey(data, "date") \/ ~HasKey(data, "dept")
                    THEN Raised(u, conv, "receive_time", alert)
                    ELSE \/ \E status \in {"created", "updated"} :
                            /\ save_check_in(u, data["date"], data["dept"], time_str, status)
                            /\ last' = [BotLast("receive_time", conv, u, None, status,
                                                alert)
                                           EXCEPT !.delivery = delivery]
                            /\ Finish(u, conv)
                            /\ UNCHANGED <<users, conns>>
                         \/ \E at \in CHECK_IN_FAULTS :
                            /\ save_check_in_fails(at)
                            /\ StorageError(u, conv, at, alert, delivery)
        ELSE IF ~HasKey(data, "date")
        THEN Raised(u, conv, "receive_time", FALSE)
        ELSE \/ \E result \in CHECK_OUT_RESULTS :
                /\ save_check_out(u, data["date"], time_str, result)
                /\ last' = BotLast("receive_time", conv, u, None,
                        IF ~result[1] THEN "not_found"
                        ELSE IF result[2] # data["date"] THEN "closed_prev" ELSE "closed",
                        FALSE)
                /\ Finish(u, conv)
                /\ UNCHANGED <<users, conns>>
             \/ \E at \in CHECK_OUT_FAULTS :
                \/ /\ save_check_out_fails(u, data["date"], at, "raised")
                   /\ StorageError(u, conv, at, FALSE, "none")
                \/ /\ save_check_out_fails(u, data["date"], at, "not_found")
                   /\ last' = [BotLast("receive_time", conv, u, None, "not_found", FALSE)
                                  EXCEPT !.fault = at]
                   /\ Finish(u, conv)
                   /\ UNCHANGED <<users, conns>>

\* line 352 is reached: the time is valid and the action is a check-in
ReadsClock(u, text) ==
    /\ validate_time_format(strip(text))
    /\ HasKey(user_data[u], "action") /\ user_data[u]["action"] = "in"

\* receive_time at any date and time of day; where the clock is not read one
\* reading stands for them all
receive_time(u, conv, text) ==
    \E today \in DATES, now \in NOW_MINUTES :
        /\ ReadsClock(u, text) \/ (today = FirstDate /\ now = NOON)
        /\ receive_time_at(u, conv, text, today, now)

cancel(u, conv) ==
    /\ Finish(u, conv)
    /\ last' = BotLast("cancel", conv, u, None, "cancelled", FALSE)
    /\ StoreUnchanged

-----------------------------------------------------------------------------
\* Spec: the users send messages and press calendar buttons; every update is
\* handled to its end before the next (Application.process_update).

\* user u sends the text
Message(u, text) ==
    LET conv == Route(u, text)[1]
        handler == Route(u, text)[2]
    IN  \/ handler = "start_command" /\ start_command(u)
        \/ /\ handler = "receive_registration_name"
           /\ text \in REG_TEXTS
           /\ receive_registration_name(u, text)
        \/ handler = "start_checkin" /\ start_checkin(u)
        \/ handler = "start_checkout" /\ start_checkout(u)
        \/ handler = "receive_department" /\ receive_department(u, conv, text)
        \/ handler = "receive_time" /\ receive_time(u, conv, text)
        \/ handler = "cancel" /\ cancel(u, conv)
        \/ handler = "clear_db_command" /\ clear_db_command(u)

\* user u presses a button of a calendar
Callback(u, data) ==
    /\ CallbackRoute(u) # "none"
    /\ calendar_handler(u, CallbackRoute(u), data)

Next ==
    \/ \E u \in CHAT_USERS, text \in TEXTS : Message(u, text)
    \/ \E u \in CHAT_USERS, data \in CALLBACKS : Callback(u, data)

Spec == Init /\ [][Next]_vars

-----------------------------------------------------------------------------
\* generate_timesheet: the hours of a row.  Hours are counted in hundredths
\* of an hour (round(..., 2)), times of day in minutes.

DIGIT_SEQ == <<"0", "1", "2", "3", "4", "5", "6", "7", "8", "9">>

DigitValue(c) == (CHOOSE n \in 1..10 : DIGIT_SEQ[n] = c) - 1

ValueError == -1

\* datetime.strptime(text, "%H:%M") as minutes after 00:00, ValueError if the
\* text does not parse; %H also takes an hour of one digit
strptime_HM(text) ==
    LET padded == IF Len(text) = 4 THEN <<"0">> \o text ELSE text
    IN  IF IsHHMM(padded)
        THEN (DigitValue(padded[1]) * 10 + DigitValue(padded[2])) * 60
                + DigitValue(padded[4]) * 10 + DigitValue(padded[5])
        ELSE ValueError

\* round(minutes / 60, 2) in hundredths; minutes * 100 / 60 is never half-way
\* between two integers
RoundHours(minutes) == (10 * minutes + 3) \div 6

Max(a, b) == IF a >= b THEN a ELSE b

\* mutant of calc_hours: a check_out before the check_in is not moved to the
\* next day
calc_hours_without_night_rule(check_in, check_out) ==
    IF check_in = None \/ check_out = None THEN 0
    ELSE IF strptime_HM(check_in) = ValueError \/ strptime_HM(check_out) = ValueError
    THEN 0
    ELSE RoundHours(Max(0, strptime_HM(check_out) - strptime_HM(check_in) - 60))

\* calc_hours(row), of the row's check_in and check_out
calc_hours(check_in, check_out) ==
    IF check_in = None \/ check_out = None THEN 0
    ELSE IF strptime_HM(check_in) = ValueError \/ strptime_HM(check_out) = ValueError
    THEN 0
    ELSE LET t1 == strptime_HM(check_in)
             t2 == IF strptime_HM(check_out) < t1
                   THEN strptime_HM(check_out) + 24 * 60 ELSE strptime_HM(check_out)
         IN  RoundHours(Max(0, (t2 - t1) - 60))

\* the valid times that rows carry
T0000 == <<"0", "0", ":", "0", "0">>
T0600 == <<"0", "6", ":", "0", "0">>
T0930 == <<"0", "9", ":", "3", "0">>
T1000 == <<"1", "0", ":", "0", "0">>
T1010 == <<"1", "0", ":", "1", "0">>
T2200 == <<"2", "2", ":", "0", "0">>
T2359 == <<"2", "3", ":", "5", "9">>
T_9_DASH_00 == <<"0", "9", "-", "0", "0">>

ROW_TIMES == {T0000, T0600, T0900, T0930, T1000, T1010, T1800, T2200, T2359}

\* what the columns check_in and check_out of a row can hold: a valid time,
\* NULL, or a text that is no time
ROW_CELLS == ROW_TIMES \cup {None, T_9_DASH_00}

\* the variables that only `last` of the function specifications uses
FunctionInit ==
    /\ users = EmptyDict
    /\ records = {}
    /\ next_id = 1
    /\ conv_reg = [u \in USER_IDS |-> END]
    /\ conv_in = [u \in USER_IDS |-> END]
    /\ conv_out = [u \in USER_IDS |-> END]
    /\ user_data = [u \in USER_IDS |-> EmptyDict]
    /\ selected = [u \in USER_IDS |-> {}]
    /\ conns = [c \in CONNS |-> IdleConn]

FunctionUnchanged ==
    UNCHANGED <<users, records, next_id, conv_reg, conv_in, conv_out, user_data,
                selected, conns>>

\* SpecHours: calc_hours applied to a row
InitHours ==
    /\ FunctionInit
    /\ \E check_in \in ROW_CELLS, check_out \in ROW_CELLS :
        last = [op |-> "row", check_in |-> check_in, check_out |-> check_out]

CalcHours ==
    /\ last.op = "row"
    /\ last' = [op |-> "calc_hours", check_in |-> last.check_in,
                check_out |-> last.check_out,
                hours |-> calc_hours(last.check_in, last.check_out)]
    /\ FunctionUnchanged

NextHours == CalcHours

SpecHours == InitHours /\ [][NextHours]_vars

\* SpecValidate: validate_time_format applied to a text.  The texts are two
\* characters, a separator, two characters, and nothing, a newline or a
\* digit after them; and the same without the first character.
HOUR_TENS == {"0", "1", "2", "3"}
HOUR_UNITS == {"0", "3", "4", "9"}
SEPARATORS == {":", "-"}
MINUTE_TENS == {"0", "5", "6"}
MINUTE_UNITS == {"0", "9", "a"}
SUFFIXES == {<<>>, <<"\n">>, <<"0">>, <<"\n", "\n">>}

TIME_TEXTS ==
    LET five == {<<a, b, c, d, e>> : a \in HOUR_TENS, b \in HOUR_UNITS, c \in SEPARATORS,
                                     d \in MINUTE_TENS, e \in MINUTE_UNITS}
    IN  {t \o x : t \in five, x \in SUFFIXES} \cup {Tail(t) : t \in five}

InitValidate ==
    /\ FunctionInit
    /\ \E time_text \in TIME_TEXTS : last = [op |-> "text", time_text |-> time_text]

Validate ==
    /\ last.op = "text"
    /\ last' = [op |-> "validate_time_format", time_text |-> last.time_text,
                accepted |-> validate_time_format(last.time_text)]
    /\ FunctionUnchanged

NextValidate == Validate

SpecValidate == InitValidate /\ [][NextValidate]_vars

\* generate_timesheet, up to the pivot table (lines 211-237).  The rows have
\* dates that parse and departments of DEPT_MAP.

\* df['department'].map(DEPT_MAP): the label of the department
DisplayDepartment(r) == DEPT_MAP[r.department]

\* the index of the pivot table: ['department', 'full_name']
PivotIndex(r) == <<DisplayDepartment(r), r.full_name>>

\* df['day'] = df['dt_obj'].dt.day
DayOf(r) == r.date[3]

\* aggfunc='sum' over the worked_hours of rows
RECURSIVE aggfunc_sum(_)
aggfunc_sum(rows) ==
    IF rows = {} THEN 0
    ELSE LET r == CHOOSE x \in rows : TRUE
         IN  calc_hours(r.check_in, r.check_out) + aggfunc_sum(rows \ {r})

\* mutant of PivotCell: the cell holds the hours of one of the rows
PivotCell_one_row(recs, g, day) ==
    LET rows == {r \in recs : PivotIndex(r) = g /\ DayOf(r) = day}
    IN  IF rows = {} THEN 0
        ELSE LET r == CHOOSE x \in rows : TRUE IN calc_hours(r.check_in, r.check_out)

\* a cell of the pivot table; .fillna(0) where the group has no row that day
PivotCell(recs, g, day) ==
    aggfunc_sum({r \in recs : PivotIndex(r) = g /\ DayOf(r) = day})

\* pivot.sum(axis=1) over the day columns
RECURSIVE RowSum(_, _)
RowSum(cells, days) ==
    IF days = {} THEN 0
    ELSE LET d == CHOOSE x \in days : TRUE
         IN  cells[d] + RowSum(cells, days \ {d})

\* the pivot table with its total column, or "no_report" (return None) when
\* the table is empty
generate_timesheet(recs) ==
    IF recs = {}
    THEN [status |-> "no_report"]
    ELSE LET index == {PivotIndex(r) : r \in recs}
             columns == {DayOf(r) : r \in recs}
             pivot == [g \in index |-> [day \in columns |-> PivotCell(recs, g, day)]]
         IN  [status |-> "report", index |-> index, columns |-> columns,
              pivot |-> pivot,
              total |-> [g \in index |-> RowSum(pivot[g], columns)]]

\* SpecTimesheet: a table of at most MaxRows rows is compiled
NAME_BOB == <<"B", "o", "b">>
TS_NAMES == {NAME_ANN, NAME_BOB}
TS_DATES == {<<2024, 2, 29>>, <<2024, 3, 1>>, <<2024, 3, 29>>}
TS_PUNCHES == {<<T0900, T1800>>, <<T2200, T0600>>, <<T0900, None>>}

TS_ROWS(id) ==
    {[id |-> id, user_id |-> 1, full_name |-> n, date |-> d, department |-> dept,
      check_in |-> p[1], check_out |-> p[2]] :
        n \in TS_NAMES, d \in TS_DATES, dept \in DEPTS, p \in TS_PUNCHES}

InitTimesheet ==
    /\ users = EmptyDict
    /\ \E n \in 0..MaxRows : \E f \in [1..n -> TS_ROWS(0)] :
            records = {[f[i] EXCEPT !.id = i] : i \in 1..n}
    /\ next_id = 1
    /\ conv_reg = [u \in USER_IDS |-> END]
    /\ conv_in = [u \in USER_IDS |-> END]
    /\ conv_out = [u \in USER_IDS |-> END]
    /\ user_data = [u \in USER_IDS |-> EmptyDict]
    /\ selected = [u \in USER_IDS |-> {}]
    /\ conns = [c \in CONNS |-> IdleConn]
    /\ last = [op |-> "table"]

Compile ==
    /\ last.op = "table"
    /\ last' = [op |-> "generate_timesheet", report |-> generate_timesheet(records)]
    /\ FunctionUnchanged

NextTimesheet == Compile

SpecTimesheet == InitTimesheet /\ [][NextTimesheet]_vars

-----------------------------------------------------------------------------
\* Properties of the store (SpecStore).

\* the steps of SpecStore that are a call save_check_in(u, d, dept, t) -> st
StoreCheckInCall(u, d, dept, t, st) ==
    /\ last'.op = "save_check_in" /\ last'.user_id = u /\ last'.date = d
    /\ last'.status = st
    /\ save_check_in(u, d, dept, t, st)

\* the steps of SpecStore that are a call save_check_out(u, d, t) -> res
StoreCheckOutCall(u, d, t, res) ==
    /\ last'.op = "save_check_out" /\ last'.user_id = u /\ last'.date = d
    /\ last'.status = res
    /\ save_check_out(u, d, t, res)

Keys(recs) == {<<r.user_id, r.date>> : r \in recs}

\* C1: whatever check-ins, check-outs and clear_all_records calls ran, one at a
\* time, the records table holds at most one row per (user_id, date).
C1_OneRecordPerUserAndDate ==
    \A r1 \in records, r2 \in records :
        (r1.user_id = r2.user_id /\ r1.date = r2.date) => r1 = r2

\* C1 witness: the table holds two rows, a repeated check-in was the last call,
\* and a check-out has acted on a row.
C1_Witness ==
    /\ Cardinality(records) = 2
    /\ last.op = "save_check_in" /\ last.status = "updated"
    /\ \E r \in records : r.check_out # None

\* C3: a check-in for a (user_id, date) without a row reports created and
\* inserts one row; a check-in for a (user_id, date) with a row reports updated
\* and inserts none; either way the key then has exactly one row, whose
\* check_in and department are those of this call.
C3_CheckInUpsert ==
    [][\A u \in USER_IDS, d \in DATES, ci \in CHECK_INS, st \in {"created", "updated"} :
        StoreCheckInCall(u, d, ci[1], ci[2], st) =>
            /\ (st = "created") <=> (RowsOf(records, u, d) = {})
            /\ (st = "updated") <=> (RowsOf(records, u, d) # {})
            /\ Cardinality(records') =
                    Cardinality(records) + (IF st = "created" THEN 1 ELSE 0)
            /\ Cardinality(RowsOf(records', u, d)) = 1
            /\ \A r \in RowsOf(records', u, d) :
                    r.department = ci[1] /\ r.check_in = ci[2]]_vars

\* C3 witness: a second check-in for a key has run, and the row holds the
\* other department and time than a first check-in could share with it.
C3_Witness ==
    /\ last.op = "save_check_in" /\ last.status = "updated"
    /\ \E r \in RowsOf(records, last.user_id, last.date) :
            r.department = "lockers" /\ r.check_in = T1800
    /\ Cardinality(records) = 1 /\ next_id = 2

\* C4: when the user has an open row for date D and no row for D+1, a check-out
\* for D+1 returns (True, D), sets that row's check_out to the submitted time
\* and changes no other row.
C4_CheckOutFallback ==
    [][\A u \in USER_IDS, d \in DATES, t \in TIMES, res \in CHECK_OUT_RESULTS :
        ( /\ StoreCheckOutCall(u, NextDay(d), t, res)
          /\ \E r \in records : r.user_id = u /\ r.date = d /\ r.check_out = None
          /\ \A r \in records : ~(r.user_id = u /\ r.date = NextDay(d)) ) =>
            /\ res = <<TRUE, d>>
            /\ Cardinality(records') = Cardinality(records)
            /\ \A r \in records :
                    IF r.user_id = u /\ r.date = d
                    THEN [r EXCEPT !.check_out = t] \in records'
                    ELSE r \in records']_vars

\* C4 witness: a check-out was resolved against the day before the selected
\* one, beside a row of another key.
C4_Witness ==
    /\ last.op = "save_check_out"
    /\ last.status[1] /\ NextDay(last.status[2]) = last.date
    /\ \E r \in RowsOf(records, last.user_id, last.status[2]) : r.check_out # None
    /\ Cardinality(records) = 2

\* C5: a check-out for date D by a user with no row for D and no open row for
\* D-1 (none at all, or one already closed) returns (False, None) and leaves
\* the records as they were; a check_out already set on D-1 stays.
C5_CheckOutNotFound ==
    [][\A u \in USER_IDS, d \in DATES, t \in TIMES, res \in CHECK_OUT_RESULTS :
        ( /\ StoreCheckOutCall(u, d, t, res)
          /\ \A r \in records : ~(r.user_id = u /\ r.date = d)
          /\ \A r \in records :
                (r.user_id = u /\ NextDay(r.date) = d) => r.check_out # None ) =>
            /\ res = <<FALSE, None>>
            /\ records' = records]_vars

\* C5 witness: not found, while the user's row of the previous day is closed.
C5_Witness ==
    /\ last.op = "save_check_out" /\ last.status = <<FALSE, None>>
    /\ \E r \in records :
            r.user_id = last.user_id /\ NextDay(r.date) = last.date /\ r.check_out # None

\* C6: a check-out never creates or deletes a row: the (user_id, date) keys are
\* the same after it, and every row is a row of before with at most its
\* check_out changed.
C6_CheckOutCreatesNoRow ==
    [][\A u \in USER_IDS, d \in DATES, t \in TIMES, res \in CHECK_OUT_RESULTS :
        StoreCheckOutCall(u, d, t, res) =>
            /\ Keys(records') = Keys(records)
            /\ Cardinality(records') = Cardinality(records)
            /\ \A r2 \in records' : \E r \in records :
                    r2 = [r EXCEPT !.check_out = r2.check_out]]_vars

\* C6 witness: a check-out closed the selected day's row, beside another row.
C6_Witness ==
    /\ last.op = "save_check_out" /\ last.status = <<TRUE, last.date>>
    /\ Cardinality(records) = 2

-----------------------------------------------------------------------------
\* Properties of the store under concurrent callers (SpecConc).

\* C2: however two commits for the same (user_id, date) interleave, the table
\* never holds two rows for that (user_id, date).  (The claim's first half;
\* it fails, so the claim does.)
C2_NoTwoRowsWhenInterleaved ==
    \A r1 \in records, r2 \in records :
        (r1.user_id = r2.user_id /\ r1.date = r2.date) => r1.id = r2.id

-----------------------------------------------------------------------------
\* Properties of the conversations (Spec).

\* what a rejected input must leave as it is
ChatAndStoreUnchanged ==
    UNCHANGED <<users, records, next_id, conv_reg, conv_in, conv_out, user_data>>

\* the steps in which a handler wrote a check-in or a check-out of user u
CheckInCommit(u) ==
    /\ last'.user_id = u /\ last'.op = "receive_time"
    /\ last'.status \in {"created", "updated"}

CheckOutCommit(u) ==
    /\ last'.user_id = u /\ last'.op = "receive_time"
    /\ last'.status \in {"closed", "closed_prev"}

\* C7: /cancel sent while a check-in or check-out conversation of the user is
\* in SELECT_DATE, DEPARTMENT or TIME_INPUT ends that conversation (the first
\* of the two that is open), empties user_data and leaves the records.
C7_CancelEndsTheFlow ==
    [][\A u \in CHAT_USERS :
        (Message(u, CMD_CANCEL) /\ (conv_in[u] # END \/ conv_out[u] # END)) =>
            /\ conv_in[u] # END => conv_in'[u] = END
            /\ conv_in[u] = END => conv_out'[u] = END
            /\ user_data'[u] = EmptyDict
            /\ records' = records]_vars

\* C8: an entry point (the check-in or the check-out button) leaves in
\* user_data nothing but the action of the flow just entered, and a commit
\* writes only a date (and, for a check-in, a department) that the user has
\* selected since the most recent entry.
C8_EntryResetsSession ==
    [][\A u \in CHAT_USERS :
        /\ ( /\ get_user_name(u) # None
             /\ Message(u, BTN_CHECKIN) \/ Message(u, BTN_CHECKOUT) ) =>
                DOMAIN user_data'[u] = {"action"}
        /\ CheckInCommit(u) => {"date", "dept"} \subseteq selected[u]
        /\ CheckOutCommit(u) => "date" \in selected[u]]_vars

\* C9: a check-in is committed only after a date and then a department were
\* selected in the same attempt, a check-out only after a date was; the
\* commit is made by a conversation that is in TIME_INPUT; and the check-out
\* conversation is never put in DEPARTMENT.
C9_PunchFlowOrder ==
    [][\A u \in CHAT_USERS :
        /\ CheckInCommit(u) =>
                {"date", "dept"} \subseteq selected[u] /\ user_data[u]["action"] = "in"
        /\ CheckOutCommit(u) =>
                "date" \in selected[u] /\ user_data[u]["action"] = "out"
        /\ (CheckInCommit(u) \/ CheckOutCommit(u)) =>
                ConvState(last'.conv, u) = TIME_INPUT
        /\ conv_out'[u] # DEPARTMENT]_vars

\* texts that are no time, no department label, and no command or button
NOT_A_TIME == {T_9_00, NAME_ANN}
NOT_A_DEPARTMENT == {T0900, T_9_00, NAME_ANN}

\* C10: a text that fails the time validation, sent while a conversation of
\* the user is in TIME_INPUT; a text that is no department label, sent in
\* DEPARTMENT; a name of fewer than 3 characters after trimming, sent in
\* REGISTER_NAME: each leaves the three conversations' states, user_data, the
\* users and the records as they were.
C10_RejectedInputChangesNothing ==
    [][\A u \in CHAT_USERS :
        /\ \A text \in NOT_A_TIME :
            ( /\ Message(u, text)
              /\ conv_in[u] = TIME_INPUT \/ conv_out[u] = TIME_INPUT ) =>
                ChatAndStoreUnchanged
        /\ \A text \in NOT_A_DEPARTMENT :
            (Message(u, text) /\ conv_in[u] = DEPARTMENT) => ChatAndStoreUnchanged
        /\ (Message(u, NAME_SHORT) /\ conv_reg[u] = REGISTER_NAME) =>
                ChatAndStoreUnchanged]_vars

\* C10 witness: a time was rejected in TIME_INPUT of the check-in
\* conversation, with the date and the department still in user_data.
C10_Witness ==
    \E u \in CHAT_USERS :
        /\ last.op = "receive_time" /\ last.status = "rejected" /\ last.user_id = u
        /\ conv_in[u] = TIME_INPUT
        /\ DOMAIN user_data[u] = {"action", "date", "dept"}

\* C11: a user without a stored profile who sends the check-in or the
\* check-out button (and is not being asked the name) ends that conversation
\* at once, user_data and the records stay as they are; and after every step
\* each record belongs to a user_id that has a profile.
C11_EntryGuard ==
    [][\A u \in CHAT_USERS :
        /\ (get_user_name(u) = None /\ conv_reg[u] = END /\ Message(u, BTN_CHECKIN)) =>
                conv_in'[u] = END /\ user_data' = user_data /\ records' = records
        /\ (get_user_name(u) = None /\ conv_reg[u] = END /\ Message(u, BTN_CHECKOUT)) =>
                conv_out'[u] = END /\ user_data' = user_data /\ records' = records
        /\ \A r \in records' : r.user_id \in DOMAIN users']_vars

\* C11 witness: an entry point has just refused a user who has no profile.
C11_Witness ==
    \/ last.op = "start_checkout" /\ last.status = "no_profile"
    \/ last.op = "start_checkin" /\ last.status = "no_profile"

\* C12: when the storage fails at a statement of the check-in commit or of
\* the check-out resolution, receive_time is left by the exception: the
\* user is told neither created, updated, closed nor not found, and the
\* records are as before.
C12_StorageFailureIsNotMasked ==
    [][last'.fault # "none" =>
            last'.status = "StorageError" /\ records' = records]_vars

\* C13: when the storage fails in the commit made from TIME_INPUT, user_data
\* of the user and the states of the conversations are as before.
C13_FailedCommitKeepsSession ==
    [][\A u \in CHAT_USERS :
        (last'.op = "receive_time" /\ last'.user_id = u /\ last'.fault # "none") =>
            /\ user_data'[u] = user_data[u]
            /\ conv_in'[u] = conv_in[u] /\ conv_out'[u] = conv_out[u]]_vars

C15_AlertNeverBlocksThePunch ==
    [][\A u \in CHAT_USERS, conv \in {"conv_in", "conv_out"}, text \in {T0900, T0900_PADDED} :
        ( /\ Route(u, text) = <<conv, "receive_time">>
          /\ Message(u, text)
          /\ DOMAIN user_data[u] = {"action", "date", "dept"}
          /\ user_data[u]["action"] = "in"
          /\ last'.fault = "none" ) =>
            /\ last'.delivery \in {"none", "sent", "failed"}
            /\ last'.status \in {"created", "updated"}
            /\ \E r \in records' :
                /\ r.user_id = u /\ r.date = user_data[u]["date"]
                /\ r.check_in = T0900 /\ r.department = user_data[u]["dept"]
            /\ user_data'[u] = EmptyDict
            /\ ConvState(conv, u)' = END]_vars

\* C15 witness: a check-in was committed although the sending of its alert
\* had failed.
C15_Witness ==
    /\ last.op = "receive_time" /\ last.delivery = "failed"
    /\ last.status \in {"created", "updated"}
    /\ \E r \in records : r.user_id = last.user_id /\ r.check_in = T0900

-----------------------------------------------------------------------------
\* Properties of the timesheet functions.

\* minutes after 00:00 of a text HH:MM
ClockMinutes(t) ==
    (DigitValue(t[1]) * 10 + DigitValue(t[2])) * 60 + DigitValue(t[4]) * 10 + DigitValue(t[5])

\* the duration of the claim: check_out - check_in, a check_out before the
\* check_in counted on the next day
ShiftMinutes(check_in, check_out) ==
    IF ClockMinutes(check_out) >= ClockMinutes(check_in)
    THEN ClockMinutes(check_out) - ClockMinutes(check_in)
    ELSE ClockMinutes(check_out) + 24 * 60 - ClockMinutes(check_in)

\* the minutes worked of the claim: the duration less 60, not below 0
WorkedMinutes(check_in, check_out) ==
    IF ShiftMinutes(check_in, check_out) >= 60
    THEN ShiftMinutes(check_in, check_out) - 60 ELSE 0

\* C16 as stated: the hours of a row with two valid times are exactly
\* max(0, d - 60 minutes), and 0 when a time is absent.  (hours are in
\* hundredths of an hour: hours / 100 = minutes / 60)
C16_WorkedHoursExact ==
    last.op = "calc_hours" =>
        /\ (last.check_in = None \/ last.check_out = None) => last.hours = 0
        /\ (last.check_in \in ROW_TIMES /\ last.check_out \in ROW_TIMES) =>
                last.hours * 60 = WorkedMinutes(last.check_in, last.check_out) * 100

\* C16, amended: the hours of a row with two valid times are
\* max(0, d - 60 minutes) rounded to the nearest hundredth of an hour, and 0
\* when a time is absent; so they are never negative, 22:00 to 06:00 gives
\* 7.00, 09:00 to 09:30 gives 0 and equal times give 0.
C16_WorkedHoursRounded ==
    last.op = "calc_hours" =>
        /\ last.hours >= 0
        /\ (last.check_in = None \/ last.check_out = None) => last.hours = 0
        /\ (last.check_in \in ROW_TIMES /\ last.check_out \in ROW_TIMES) =>
            LET exact == WorkedMinutes(last.check_in, last.check_out) * 100
            IN  /\ last.hours * 60 - exact <= 30
                /\ exact - last.hours * 60 <= 30
        /\ (last.check_in = T2200 /\ last.check_out = T0600) => last.hours = 700
        /\ (last.check_in = T0900 /\ last.check_out = T0930) => last.hours = 0
        /\ (last.check_in \in ROW_TIMES /\ last.check_out = last.check_in) =>
                last.hours = 0

\* C16 witness: the hours of a night shift have been computed.
C16_Witness ==
    /\ last.op = "calc_hours"
    /\ last.check_in = T2200 /\ last.check_out = T0600 /\ last.hours = 700

\* C17: a valid time received in TIME_INPUT, the storage working, ends with
\* one of the outcomes created, updated, closed and not found, empties
\* user_data and ends the conversation that handled it; and no text is given
\* to receive_time of a conversation that has ended.
C17_ValidTimeCompletes ==
    [][\A u \in CHAT_USERS, conv \in {"conv_in", "conv_out"} :
        /\ \A text \in {T0900, T0900_PADDED} :
            ( /\ Route(u, text) = <<conv, "receive_time">>
              /\ Message(u, text)
              /\ last'.fault = "none" ) =>
                /\ last'.status \in {"created", "updated", "closed", "closed_prev",
                                     "not_found"}
                /\ user_data'[u] = EmptyDict
                /\ ConvState(conv, u)' = END
        /\ \A text \in TEXTS :
            ConvState(conv, u)' = END => Route(u, text)' # <<conv, "receive_time">>]_vars

\* the texts HH:MM with HH in 00..23 and MM in 00..59, character by character
ExactlyHHMM(t) ==
    /\ Len(t) = 5
    /\ t[3] = ":"
    /\ \A i \in {1, 2, 4, 5} : t[i] \in {"0", "1", "2", "3", "4", "5", "6", "7", "8", "9"}
    /\ DigitValue(t[1]) * 10 + DigitValue(t[2]) <= 23
    /\ DigitValue(t[4]) * 10 + DigitValue(t[5]) <= 59

\* C18: validate_time_format accepts a text exactly if it is five characters
\* HH:MM with HH in 00..23 and MM in 00..59; every other text, a valid time
\* followed by a newline among them, is rejected.
C18_AcceptsExactlyHHMM ==
    last.op = "validate_time_format" => (last.accepted <=> ExactlyHHMM(last.time_text))

\* the sum of the worked hours of a set of records
RECURSIVE TotalHours(_)
TotalHours(rows) ==
    IF rows = {} THEN 0
    ELSE LET r == CHOOSE x \in rows : TRUE
         IN  calc_hours(r.check_in, r.check_out) + TotalHours(rows \ {r})

\* the sum of f over the set days
RECURSIVE SumOver(_, _)
SumOver(f, days) ==
    IF days = {} THEN 0
    ELSE LET d == CHOOSE x \in days : TRUE IN f[d] + SumOver(f, days \ {d})

\* the group of a record: its department's label and its name
GroupOf(r) == <<DEPT_MAP[r.department], r.full_name>>

\* C19: the timesheet compiled from a table that is not empty has one row per
\* group (department label, name) of the records; each cell of a day is the
\* sum of the worked hours of the group's records of that day of the month, 0
\* without any; the total of a row is the sum of its cells and the sum of the
\* worked hours of all records of the group.  An empty table gives no report.
C19_TimesheetAggregation ==
    last.op = "generate_timesheet" =>
        /\ records = {} <=> last.report.status = "no_report"
        /\ records # {} =>
            LET report == last.report
            IN  /\ report.status = "report"
                /\ report.index = {GroupOf(r) : r \in records}
                /\ report.columns = {r.date[3] : r \in records}
                /\ \A g \in report.index :
                    /\ DOMAIN report.pivot[g] = report.columns
                    /\ \A day \in report.columns :
                        report.pivot[g][day] =
                            TotalHours({r \in records : GroupOf(r) = g /\ r.date[3] = day})
                    /\ report.total[g] = SumOver(report.pivot[g], report.columns)
                    /\ report.total[g] = TotalHours({r \in records : GroupOf(r) = g})

\* C19 witness: a cell of a compiled timesheet is the sum of the hours of two
\* records, 8.00 and 7.00, of one group on the same day of the month.
C19_Witness ==
    /\ last.op = "generate_timesheet"
    /\ last.report.status = "report"
    /\ \E g \in last.report.index : \E day \in last.report.columns :
        /\ last.report.pivot[g][day] = 1500
        /\ Cardinality({r \in records : GroupOf(r) = g /\ r.date[3] = day}) = 2

\* C20: a check-in for a (user_id, date) that has a row changes in that row
\* at most check_in, department and full_name: its id, user_id, date and
\* check_out are as before, and so is every other row.
C20_RepeatedCheckInFrame ==
    [][\A u \in USER_IDS, d \in DATES, ci \in CHECK_INS :
        \A old \in records :
            ( /\ old.user_id = u /\ old.date = d
              /\ StoreCheckInCall(u, d, ci[1], ci[2], "updated") ) =>
                \E new \in records' :
                    /\ new.id = old.id /\ new.user_id = old.user_id
                    /\ new.date = old.date /\ new.check_out = old.check_out
                    /\ records' \ {new} = records \ {old}]_vars

\* C20 witness: a repeated check-in has run on a row whose check_out is set,
\* next to a row of another date.
C20_Witness ==
    /\ last.op = "save_check_in" /\ last.status = "updated"
    /\ \E r \in records :
        /\ r.user_id = last.user_id /\ r.date = last.date /\ r.check_out # None
    /\ \E r \in records : r.date # last.date

\* C21: when the user has a row for the selected date D, a check-out for D
\* returns (True, D) and sets check_out of that row to the submitted time,
\* whether or not it was set before; every other row, an open row of D-1
\* among them, is as before.
C21_SameDayBeforeFallback ==
    [][\A u \in USER_IDS, d \in DATES, t \in TIMES, res \in CHECK_OUT_RESULTS :
        ( /\ StoreCheckOutCall(u, d, t, res)
          /\ \E r \in records : r.user_id = u /\ r.date = d ) =>
            /\ res = <<TRUE, d>>
            /\ Cardinality(records') = Cardinality(records)
            /\ \A r \in records :
                    IF r.user_id = u /\ r.date = d
                    THEN [r EXCEPT !.check_out = t] \in records'
                    ELSE r \in records']_vars

\* C21 witness: a check-out for D has closed the row of D with the later
\* time, and the user's row of D-1 is still open.
C21_Witness ==
    /\ last.op = "save_check_out"
    /\ last.status = <<TRUE, last.date>>
    /\ \E r \in records :
        r.user_id = last.user_id /\ r.date = last.date /\ r.check_out = T1800
    /\ \E r \in records :
        /\ r.user_id = last.user_id /\ NextDay(r.date) = last.date
        /\ r.check_out = None

====
